---- MODULE Spec2Model ----
(***************************************************************************)
(* Model of titration/utils/devices/temperature_control.py: the class      *)
(* Temperature_Control, a PID controller that drives a solid-state relay   *)
(* by time-proportioning.                                                  *)
(*                                                                         *)
(* Numbers.  Python floats are modelled as exact fixed-point rationals.    *)
(*   - temperatures, error, integral, derivative: whole degrees / degree   *)
(*     seconds (timeStep is 1 s, so the division by timeStep is exact);    *)
(*   - kp in hundredths, Ti in millionths, Td a whole number, as the       *)
(*     literals of lines 9-14 are written;                                 *)
(*   - k in units of 1/Scale, Scale = 100 * 1000000, so that               *)
(*     kp * (error + Ti * integral + Td * derivative) is an integer;       *)
(*   - a time is a record [s |-> whole seconds, u |-> 0 .. Scale-1]        *)
(*     (units of 1/Scale second), since timeStep * k has that resolution.  *)
(***************************************************************************)
EXTENDS Integers, Sequences, FiniteSets, TLC

\* ------------------------------------------------------------------ bounds
\* polling periods of wall-clock time explored after the first state
MaxClock == 3
\* sample records appended after the first state
MaxLog == 2

\* --------------------------------------------------------------- constants
PID_DEFAULT_KP == 9
PID_DEFAULT_TI == 1
PID_DEFAULT_TD == 9
PID_ANTIWINDUP_KP == 4
PID_ANTIWINDUP_TI == 4000
PID_ANTIWINDUP_TD == 9
\* the step count of the anti-windup test, lines 108 and 110
ANTIWINDUP_STEPS == 250
timeStep == 1
setPoint == 30

Scale == 100 * 1000000

\* ------------------------------------------------------------------- inputs
\* what sensor.get_temperature() can return; SensorError: it raises
Temperatures == {25, 29, 30, 31}
SensorError == [raises |-> TRUE, value |-> 0]
Readings == {[raises |-> FALSE, value |-> t] : t \in Temperatures} \cup {SensorError}
\* time that passes between the first time.time() of update() and the one
\* that schedules timeNext (units of 1/Scale second)
Lags == {0, Scale \div 2}
\* the polling loop's period (units of 1/Scale second)
Poll == Scale \div 2

\* -------------------------------------------------------------------- time
TAdd(t, d) ==
    LET tot == t.u + d
    IN  [s |-> t.s + (tot \div Scale), u |-> tot % Scale]

TLe(a, b) == a.s < b.s \/ (a.s = b.s /\ a.u <= b.u)

TLt(a, b) == ~TLe(b, a)

\* a - b in units of 1/Scale second
TDiff(a, b) == (a.s - b.s) * Scale + (a.u - b.u)

\* time.ctime(t): the text of the local time, to the whole second
ctime(t) == t.s

\* ------------------------------------------------------- the object's state
VARIABLES
    controlActive, kp, Ti, Td, k, integral, integral_prior, derivative,
    error, error_prior, stepCount, timeNext, temperatureLast, relayOn, df,
    relay,      \* the output line of the gpiozero LED self.relay
    clock,      \* what time.time() returns
    branch,     \* the path the last call took through the code
    cmd,        \* what the last call told self.relay: "none", "on", "off"
    sensorRead, \* whether the last call called sensor.get_temperature()
    raised,     \* whether the last call ended in an exception
    timeNow,    \* the time the last update() read at line 83
    timeSched,  \* the time the last update() read when it set timeNext
    wait,       \* timeNext - timeSched as the last transition set it
    onWait,     \* wait, as set by the tick that last switched the relay on
    onBranch,   \* branch of the tick that last switched the relay on
    origin      \* clock and Len(df) of the first state

fields == <<controlActive, kp, Ti, Td, k, integral, integral_prior,
            derivative, error, error_prior, stepCount, timeNext,
            temperatureLast, relayOn, df>>

vars == <<controlActive, kp, Ti, Td, k, integral, integral_prior, derivative,
          error, error_prior, stepCount, timeNext, temperatureLast, relayOn,
          df, relay, clock, branch, cmd, sensorRead, raised, timeNow,
          timeSched, wait, onWait, onBranch, origin>>

\* the object (and its relay) as one value, for the methods below
Self ==
    [controlActive |-> controlActive, kp |-> kp, Ti |-> Ti, Td |-> Td,
     k |-> k, integral |-> integral, integral_prior |-> integral_prior,
     derivative |-> derivative, error |-> error, error_prior |-> error_prior,
     stepCount |-> stepCount, timeNext |-> timeNext,
     temperatureLast |-> temperatureLast, relayOn |-> relayOn, df |-> df,
     relay |-> relay,
     cmd |-> "none", branch |-> "none", sensorRead |-> FALSE,
     raised |-> FALSE]

\* the class attributes of lines 29-70 and the relay of line 26; t is the
\* time at which the class body ran
Constructed(t) ==
    [controlActive |-> FALSE,
     kp |-> PID_DEFAULT_KP, Ti |-> PID_DEFAULT_TI, Td |-> PID_DEFAULT_TD,
     k |-> 0, integral |-> 0, integral_prior |-> 0, derivative |-> 0,
     error |-> 0, error_prior |-> 0, stepCount |-> 0, timeNext |-> t,
     temperatureLast |-> 0, relayOn |-> FALSE, df |-> <<>>,
     relay |-> FALSE,
     cmd |-> "none", branch |-> "none", sensorRead |-> FALSE,
     raised |-> FALSE]

\* ----------------------------------------------------------- private methods
update_timeNext(s, stepTime) == [s EXCEPT !.timeNext = stepTime]

set_controlparam_antiwindup(s) ==
    [s EXCEPT !.kp = PID_ANTIWINDUP_KP, !.Ti = PID_ANTIWINDUP_TI,
              !.Td = PID_ANTIWINDUP_TD]

set_controlparam_default(s) ==
    [s EXCEPT !.kp = PID_DEFAULT_KP, !.Ti = PID_DEFAULT_TI,
              !.Td = PID_DEFAULT_TD]

\* (mutant) the derivative term is left out of k
update_gains_noD(s, temperature) ==
    LET e == setPoint - temperature
        i == s.integral_prior + e * timeStep
        d == (e - s.error_prior) \div timeStep
    IN  [s EXCEPT !.error = e, !.integral = i, !.derivative = d,
                  !.k = s.kp * (1000000 * e + s.Ti * i)]

\* lines 210-216
\* k in units of 1/Scale: kp/100 * (error + Ti/1000000 * integral + Td * derivative)
update_gains(s, temperature) ==
    LET e == setPoint - temperature
        i == s.integral_prior + e * timeStep
        d == (e - s.error_prior) \div timeStep
    IN  [s EXCEPT !.error = e, !.integral = i, !.derivative = d,
                  !.k = s.kp * (1000000 * e + s.Ti * i + 1000000 * s.Td * d)]

update_priors(s) ==
    [s EXCEPT !.error_prior = s.error, !.integral_prior = s.integral]

set_integral_zero(s) == [s EXCEPT !.integral = 0]

\* (mutant) drives the relay but forgets to note it when switching off
set_relayState_stale(s, boolean) ==
    [s EXCEPT !.relayOn = IF boolean THEN TRUE ELSE s.relayOn,
              !.relay = boolean,
              !.cmd = IF boolean THEN "on" ELSE "off"]

\* lines 229-234
set_relayState(s, boolean) ==
    [s EXCEPT !.relayOn = boolean, !.relay = boolean,
              !.cmd = IF boolean THEN "on" ELSE "off"]

\* ------------------------------------------------------------------ update()
\* (mutant) the off-phase is scheduled for a whole timeStep
ClosePhase_fullWait(s, now2) ==
    LET s1 == set_relayState(s, FALSE)
        s2 == [s1 EXCEPT !.stepCount = s1.stepCount + 1]
        s3 == update_priors(s2)
    IN  [update_timeNext(s3, TAdd(now2, timeStep * Scale))
            EXCEPT !.branch = "close"]

\* (mutant) the step is not counted
ClosePhase_noCount(s, now2) ==
    LET s1 == set_relayState(s, FALSE)
        s3 == update_priors(s1)
    IN  [update_timeNext(s3, TAdd(now2, timeStep * (Scale - s3.k)))
            EXCEPT !.branch = "close"]

\* lines 87-99: the relay is on and its time is up; now2 is the time.time()
\* of line 99
ClosePhase(s, now2) ==
    LET s1 == set_relayState(s, FALSE)
        s2 == [s1 EXCEPT !.stepCount = s1.stepCount + 1]
        s3 == update_priors(s2)
    IN  [update_timeNext(s3, TAdd(now2, timeStep * (Scale - s3.k)))
            EXCEPT !.branch = "close"]

\* lines 107-111
AntiWindup(s) ==
    IF s.stepCount < ANTIWINDUP_STEPS THEN set_integral_zero(s)
    ELSE IF s.stepCount = ANTIWINDUP_STEPS THEN set_controlparam_antiwindup(s)
    ELSE s

\* (mutant) a temperature equal to the set point counts as below it
BelowSetPoint_orEqual(temperature) == temperature <= setPoint

\* line 117
BelowSetPoint(temperature) == temperature < setPoint

\* (mutant) k >= 1 is not clamped to 1
Schedule_noClamp(s, temperature, now2) ==
    IF BelowSetPoint(temperature) THEN
        IF s.k <= 0 THEN
            [update_timeNext([s EXCEPT !.k = 0], TAdd(now2, timeStep * Scale))
                EXCEPT !.branch = "k_le_0"]
        ELSE IF s.k < Scale THEN
            [update_timeNext(set_relayState(s, TRUE), TAdd(now2, timeStep * s.k))
                EXCEPT !.branch = "prop"]
        ELSE
            [update_timeNext(set_relayState(s, TRUE), TAdd(now2, timeStep * Scale))
                EXCEPT !.branch = "k_ge_1"]
    ELSE
        [update_priors(update_timeNext(set_relayState([s EXCEPT !.k = 0], FALSE),
                                       TAdd(now2, timeStep * Scale)))
            EXCEPT !.branch = "above"]

\* (mutant) the priors are committed in the k <= 0 branch too
Schedule_commitLow(s, temperature, now2) ==
    IF BelowSetPoint(temperature) THEN
        IF s.k <= 0 THEN
            [update_priors(update_timeNext([s EXCEPT !.k = 0],
                                           TAdd(now2, timeStep * Scale)))
                EXCEPT !.branch = "k_le_0"]
        ELSE IF s.k < Scale THEN
            [update_timeNext(set_relayState(s, TRUE), TAdd(now2, timeStep * s.k))
                EXCEPT !.branch = "prop"]
        ELSE
            [update_timeNext(set_relayState([s EXCEPT !.k = Scale], TRUE),
                             TAdd(now2, timeStep * Scale))
                EXCEPT !.branch = "k_ge_1"]
    ELSE
        [update_priors(update_timeNext(set_relayState([s EXCEPT !.k = 0], FALSE),
                                       TAdd(now2, timeStep * Scale)))
            EXCEPT !.branch = "above"]

\* (mutant) an unclamped k >= 1 sets the length of the on-phase
Schedule_longOn(s, temperature, now2) ==
    IF BelowSetPoint(temperature) THEN
        IF s.k <= 0 THEN
            [update_timeNext([s EXCEPT !.k = 0], TAdd(now2, timeStep * Scale))
                EXCEPT !.branch = "k_le_0"]
        ELSE IF s.k < Scale THEN
            [update_timeNext(set_relayState(s, TRUE), TAdd(now2, timeStep * s.k))
                EXCEPT !.branch = "prop"]
        ELSE
            [update_timeNext(set_relayState([s EXCEPT !.k = Scale], TRUE),
                             TAdd(now2, timeStep * s.k))
                EXCEPT !.branch = "k_ge_1"]
    ELSE
        [update_priors(update_timeNext(set_relayState([s EXCEPT !.k = 0], FALSE),
                                       TAdd(now2, timeStep * Scale)))
            EXCEPT !.branch = "above"]

\* lines 116-134; now2 is the time.time() of line 120, 123, 127 or 133
Schedule(s, temperature, now2) ==
    IF BelowSetPoint(temperature) THEN
        IF s.k <= 0 THEN
            [update_timeNext([s EXCEPT !.k = 0], TAdd(now2, timeStep * Scale))
                EXCEPT !.branch = "k_le_0"]
        ELSE IF s.k < Scale THEN
            [update_timeNext(set_relayState(s, TRUE), TAdd(now2, timeStep * s.k))
                EXCEPT !.branch = "prop"]
        ELSE
            [update_timeNext(set_relayState([s EXCEPT !.k = Scale], TRUE),
                             TAdd(now2, timeStep * Scale))
                EXCEPT !.branch = "k_ge_1"]
    ELSE
        [update_priors(update_timeNext(set_relayState([s EXCEPT !.k = 0], FALSE),
                                       TAdd(now2, timeStep * Scale)))
            EXCEPT !.branch = "above"]

\* lines 136-141
Record(s, now, temperature) ==
    [s EXCEPT !.df = Append(s.df, [time |-> ctime(now),
                                   temperature |-> temperature,
                                   gain |-> s.k])]

\* (mutant) the anti-windup step runs before the sensor is read
SamplePhase_early(s, reading, now, now2) ==
    IF reading = SensorError THEN
        [AntiWindup(s) EXCEPT !.sensorRead = TRUE, !.raised = TRUE,
                              !.branch = "sensor_error"]
    ELSE
        LET temperature == reading.value
            s1 == [s EXCEPT !.sensorRead = TRUE, !.temperatureLast = temperature]
            s2 == AntiWindup(s1)
            s3 == update_gains(s2, temperature)
            s4 == Schedule(s3, temperature, now2)
        IN  Record(s4, now, temperature)

\* (mutant) the record holds k as computed, before it is clamped
SamplePhase_preClamp(s, reading, now, now2) ==
    IF reading = SensorError THEN
        [s EXCEPT !.sensorRead = TRUE, !.raised = TRUE, !.branch = "sensor_error"]
    ELSE
        LET temperature == reading.value
            s1 == [s EXCEPT !.sensorRead = TRUE, !.temperatureLast = temperature]
            s2 == AntiWindup(s1)
            s3 == update_gains(s2, temperature)
            s4 == Schedule(s3, temperature, now2)
        IN  [s4 EXCEPT !.df = Append(s4.df, [time |-> ctime(now),
                                             temperature |-> temperature,
                                             gain |-> s3.k])]

\* lines 101-141: the relay is off and it is time to sample
SamplePhase(s, reading, now, now2) ==
    IF reading = SensorError THEN
        [s EXCEPT !.sensorRead = TRUE, !.raised = TRUE, !.branch = "sensor_error"]
    ELSE
        LET temperature == reading.value
            s1 == [s EXCEPT !.sensorRead = TRUE, !.temperatureLast = temperature]
            s2 == AntiWindup(s1)
            s3 == update_gains(s2, temperature)
            s4 == Schedule(s3, temperature, now2)
        IN  Record(s4, now, temperature)

\* (mutant) the comparison with timeNext is reversed
Due_reversed(s, now) == TLe(now, s.timeNext)

\* line 86
Due(s, now) == TLe(s.timeNext, now)

\* (mutant) the controlActive flag is not tested
Update_noEnable(s, reading, now, now2) ==
    IF Due(s, now) THEN
        IF s.relayOn THEN ClosePhase(s, now2)
        ELSE SamplePhase(s, reading, now, now2)
    ELSE [s EXCEPT !.branch = "early"]

\* lines 78-147; now is the time.time() of line 83
Update(s, reading, now, now2) ==
    IF ~s.controlActive THEN [s EXCEPT !.branch = "inactive"]
    ELSE IF Due(s, now) THEN
        IF s.relayOn THEN ClosePhase(s, now2)
        ELSE SamplePhase(s, reading, now, now2)
    ELSE [s EXCEPT !.branch = "early"]

\* (mutant) activate() does not set the gains
Activate_keepGains(s, now) ==
    [s EXCEPT !.controlActive = TRUE, !.timeNext = now, !.branch = "activate"]

\* lines 170-173
Activate(s, now) ==
    [set_controlparam_default([s EXCEPT !.controlActive = TRUE])
        EXCEPT !.timeNext = now, !.branch = "activate"]

\* (mutant) deactivate() also clears the duty value
Deactivate_clearK(s) ==
    [set_relayState([s EXCEPT !.controlActive = FALSE, !.k = 0], FALSE)
        EXCEPT !.branch = "deactivate"]

\* (mutant) deactivate() leaves the relay as it is
Deactivate_noOff(s) ==
    [s EXCEPT !.controlActive = FALSE, !.branch = "deactivate"]

\* lines 175-177
Deactivate(s) ==
    [set_relayState([s EXCEPT !.controlActive = FALSE], FALSE)
        EXCEPT !.branch = "deactivate"]

\* the paths through update()
UpdateBranches == {"inactive", "early", "sensor_error", "close", "k_le_0",
                   "prop", "k_ge_1", "above"}
\* the branches of update() that set timeNext
Transitions == {"close", "k_le_0", "prop", "k_ge_1", "above"}
\* the branches of update() that sample and finish
Samples == {"k_le_0", "prop", "k_ge_1", "above"}

\* ------------------------------------------------------------------ actions
Assign(n) ==
    /\ controlActive' = n.controlActive
    /\ kp' = n.kp
    /\ Ti' = n.Ti
    /\ Td' = n.Td
    /\ k' = n.k
    /\ integral' = n.integral
    /\ integral_prior' = n.integral_prior
    /\ derivative' = n.derivative
    /\ error' = n.error
    /\ error_prior' = n.error_prior
    /\ stepCount' = n.stepCount
    /\ timeNext' = n.timeNext
    /\ temperatureLast' = n.temperatureLast
    /\ relayOn' = n.relayOn
    /\ df' = n.df
    /\ relay' = n.relay
    /\ branch' = n.branch
    /\ cmd' = n.cmd
    /\ sensorRead' = n.sensorRead
    /\ raised' = n.raised

\* the part of the run that is explored; an on-phase that began within it
\* is followed to its end
InHorizon(t, len) ==
    /\ TDiff(t, origin.time) <= MaxClock * Poll
    /\ len - origin.len <= MaxLog

update ==
    \E reading \in Readings, lag \in Lags :
        LET now  == clock
            now2 == TAdd(clock, lag)
            n    == Update(Self, reading, now, now2)
            sets == n.branch \in Transitions
        IN  /\ InHorizon(now2, Len(n.df)) \/ n.branch = "close"
            /\ Assign(n)
            /\ timeNow' = IF n.branch = "inactive" THEN timeNow ELSE now
            /\ timeSched' = IF sets THEN now2 ELSE timeSched
            /\ clock' = IF sets THEN now2 ELSE clock
            /\ wait' = IF sets THEN TDiff(n.timeNext, now2) ELSE wait
            /\ onWait' = IF n.cmd = "on" THEN TDiff(n.timeNext, now2) ELSE onWait
            /\ onBranch' = IF n.cmd = "on" THEN n.branch ELSE onBranch
            /\ UNCHANGED origin

activate ==
    /\ Assign(Activate(Self, clock))
    /\ UNCHANGED <<clock, timeNow, timeSched, wait, onWait, onBranch, origin>>

deactivate ==
    /\ Assign(Deactivate(Self))
    /\ UNCHANGED <<clock, timeNow, timeSched, wait, onWait, onBranch, origin>>

\* time passes between calls: one period of the polling loop, or up to the
\* moment timeNext
Advance ==
    \E t \in {TAdd(clock, Poll), timeNext} :
        /\ TLt(clock, t)
        /\ InHorizon(t, Len(df)) \/ (relayOn /\ t = timeNext)
        /\ clock' = t
        /\ branch' = "wait"
        /\ cmd' = "none"
        /\ sensorRead' = FALSE
        /\ raised' = FALSE
        /\ UNCHANGED <<fields, relay, timeNow, timeSched, wait, onWait,
                       onBranch, origin>>

InitFrom(s, t) ==
    /\ controlActive = s.controlActive
    /\ kp = s.kp
    /\ Ti = s.Ti
    /\ Td = s.Td
    /\ k = s.k
    /\ integral = s.integral
    /\ integral_prior = s.integral_prior
    /\ derivative = s.derivative
    /\ error = s.error
    /\ error_prior = s.error_prior
    /\ stepCount = s.stepCount
    /\ timeNext = s.timeNext
    /\ temperatureLast = s.temperatureLast
    /\ relayOn = s.relayOn
    /\ df = s.df
    /\ relay = s.relay
    /\ clock = t
    /\ branch = "none"
    /\ cmd = "none"
    /\ sensorRead = FALSE
    /\ raised = FALSE
    /\ timeNow = t
    /\ timeSched = t
    /\ wait = 0
    /\ onWait = 0
    /\ onBranch = "none"
    /\ origin = [time |-> t, len |-> Len(s.df)]

TimeZero == [s |-> 0, u |-> 0]

\* the object as constructed; the clock starts at the time the class body ran
Init == InitFrom(Constructed(TimeZero), TimeZero)

Next == update \/ activate \/ deactivate \/ Advance

Spec == Init /\ [][Next]_vars

\* control is switched on and stays on; the polling loop of lines 256-257
\* keeps calling update(), and time passes
InitLive == InitFrom(Activate(Constructed(TimeZero), TimeZero), TimeZero)

NextLive == update \/ Advance

SpecLive == InitLive /\ [][NextLive]_vars /\ WF_vars(update) /\ WF_vars(Advance)

\* ------------------------------------------------ a run that is warmed up
\* n heating cycles of a run in which the sensor reads WarmTemperature and
\* update() is called at every timeNext: a sampling tick that switches the
\* relay on, then the tick that closes the on-phase
WarmTemperature == [raises |-> FALSE, value |-> 25]

RECURSIVE WarmUp(_, _)
WarmUp(s, n) ==
    IF n = 0 THEN s
    ELSE IF n = 1 THEN
        LET a == Update(s, WarmTemperature, s.timeNext, s.timeNext)
        IN  Update(a, WarmTemperature, a.timeNext, a.timeNext)
    ELSE LET half == WarmUp(s, n \div 2)
         IN  IF half.stepCount >= 0 THEN WarmUp(half, n - n \div 2) ELSE s

\* the object one cycle before the anti-windup step count
Warm == WarmUp(Activate(Constructed(TimeZero), TimeZero), ANTIWINDUP_STEPS - 1)

InitTuned == InitFrom(Warm, Warm.timeNext)

SpecTuned == InitTuned /\ [][Next]_vars

\* the object when stepCount has just reached the anti-windup step count:
\* one more cycle of the same run
Crossed == WarmUp(Warm, 1)

InitCrossed == InitFrom(Crossed, Crossed.timeNext)

SpecCrossed == InitCrossed /\ [][Next]_vars

\* =================================================================== claims
DefaultGains == <<PID_DEFAULT_KP, PID_DEFAULT_TI, PID_DEFAULT_TD>>
AntiWindupGains == <<PID_ANTIWINDUP_KP, PID_ANTIWINDUP_TI, PID_ANTIWINDUP_TD>>
Gains == <<kp, Ti, Td>>

\* C1: with control active, a call of update() at a time before timeNext
\* changes no field of the controller, does not read the sensor, does not
\* command the relay, raises nothing and appends no record.
C1_EarlyTickChangesNothing ==
    [][(controlActive /\ TLt(clock, timeNext) /\ branch' \in UpdateBranches)
         => /\ UNCHANGED <<fields, relay, clock>>
            /\ branch' = "early"
            /\ sensorRead' = FALSE
            /\ cmd' = "none"
            /\ raised' = FALSE]_vars

\* C1 witness: an early tick while the relay is on, after a sample was taken
C1_Witness ==
    /\ branch = "early"
    /\ controlActive
    /\ TLt(clock, timeNext)
    /\ relayOn
    /\ Len(df) > 0

\* C2 (the claim as stated): after every sampling tick made while
\* stepCount < 250 the integral is 0.
C2_IntegralZeroInWarmup ==
    (branch \in Samples /\ stepCount < ANTIWINDUP_STEPS) => integral = 0

\* C3 (the claim as stated): the gain parameters change only from the
\* default preset to the anti-windup preset, only in a sampling tick at
\* stepCount = 250, and once they are the anti-windup preset they stay so.
C3_TransitionOnceNeverBack ==
    [][/\ Gains = AntiWindupGains => Gains' = AntiWindupGains
       /\ Gains' # Gains =>
             /\ Gains = DefaultGains
             /\ Gains' = AntiWindupGains
             /\ branch' \in Samples
             /\ stepCount = ANTIWINDUP_STEPS]_vars

\* C4 (the claim as stated): after a sampling tick that read a temperature
\* >= setPoint, k = 0, the relay was commanded off, the priors are committed
\* and timeNext is the time read at line 83 plus timeStep.
C4_AboveSetPoint_FromTimeNow ==
    (branch \in Samples /\ temperatureLast >= setPoint)
        => /\ k = 0
           /\ cmd = "off"
           /\ ~relayOn
           /\ ~relay
           /\ error_prior = error
           /\ integral_prior = integral
           /\ timeNext = TAdd(timeNow, timeStep * Scale)

\* C4 (amended): after a sampling tick that read a temperature >= setPoint,
\* k = 0, the relay was commanded off, the priors are committed and timeNext
\* is timeStep after the time update() read when it scheduled (line 133),
\* which is not before the time it read at line 83.
C4_AboveSetPoint ==
    (branch \in Samples /\ temperatureLast >= setPoint)
        => /\ k = 0
           /\ cmd = "off"
           /\ ~relayOn
           /\ ~relay
           /\ error_prior = error
           /\ integral_prior = integral
           /\ timeNext = TAdd(timeSched, timeStep * Scale)
           /\ TLe(timeNow, timeSched)
           /\ TLe(TAdd(timeNow, timeStep * Scale), timeNext)

\* C4 witness: such a tick at exactly the set point, during which the clock
\* moved, with a history that left a non-zero integral
C4_Witness ==
    /\ branch \in Samples
    /\ temperatureLast = setPoint
    /\ TLt(timeNow, timeSched)
    /\ integral # 0
    /\ integral_prior = integral

\* C5: a sampling tick below the set point with 0 < k < 1 switches the relay
\* on and waits timeStep * k; the tick that closes that on-phase waits
\* timeStep * (1 - k) with the same k, and the two waits add up to timeStep.
C5_TimeProportioning ==
    /\ (branch \in Samples /\ temperatureLast < setPoint /\ 0 < k /\ k < Scale)
          => /\ relayOn
             /\ cmd = "on"
             /\ wait = timeStep * k
             /\ onWait = wait
    /\ (branch = "close" /\ onBranch = "prop")
          => /\ 0 < k /\ k < Scale
             /\ onWait = timeStep * k
             /\ wait = timeStep * (Scale - k)
             /\ onWait + wait = timeStep * Scale

\* C5 witness: an on-phase with 0 < k < 1 that has been closed
C5_Witness ==
    /\ branch = "close"
    /\ onBranch = "prop"
    /\ stepCount = 2
    /\ wait > 0

\* the state after the sampling tick of Scenario A: the priors and the
\* step count are those of a fresh controller and the sensor read 25
ScenarioA ==
    /\ branch \in Samples
    /\ temperatureLast = 25
    /\ stepCount = 0
    /\ error_prior = 0
    /\ integral_prior = 0
    /\ Gains = DefaultGains

\* C6 (the claim as stated): in Scenario A the relay is switched on and
\* timeNext - now is strictly between 0 and 1.
C6_ScenarioA_Proportioned ==
    ScenarioA
        => /\ relayOn
           /\ 0 < TDiff(timeNext, timeNow)
           /\ TDiff(timeNext, timeNow) < timeStep * Scale

\* C6 (amended): in Scenario A the relay is switched on, k is clamped to 1
\* and timeNext is a whole timeStep after the time read when scheduling, so
\* timeNext - now >= 1.
C6_ScenarioA_FullPeriod ==
    ScenarioA
        => /\ relayOn
           /\ cmd = "on"
           /\ k = Scale
           /\ TDiff(timeNext, timeSched) = timeStep * Scale
           /\ TDiff(timeNext, timeNow) >= timeStep * Scale

\* C6 witness: Scenario A has run
C6_Witness == ScenarioA /\ Len(df) = 1 /\ relayOn

\* C7 (the claim as stated): stepCount never decreases and goes up by one
\* exactly in the steps that take the relay from on to off.
C7_CountsEveryOnToOff ==
    [][/\ stepCount' >= stepCount
       /\ stepCount' = stepCount + (IF relayOn /\ ~relayOn' THEN 1 ELSE 0)]_vars

\* C7 (amended): stepCount never decreases and goes up by one exactly in the
\* steps in which update() takes the relay from on to off; deactivate()
\* switching the relay off does not count.
C7_CountsClosedOnPhases ==
    [][/\ stepCount' >= stepCount
       /\ stepCount' = stepCount +
            (IF relayOn /\ ~relayOn' /\ branch' \in UpdateBranches THEN 1 ELSE 0)
       /\ (relayOn /\ ~relayOn' /\ branch' \notin UpdateBranches)
             => branch' = "deactivate"]_vars

\* C7 witness: two on-phases were closed by update(), then deactivate() ran
C7_Witness ==
    /\ stepCount = 2
    /\ branch = "deactivate"
    /\ Len(df) = 2

\* C8: relayOn always equals the last value commanded to the relay (off
\* before any command); relayOn changes only in steps that command the
\* relay, and a command sets relayOn to the value commanded.
C8_RelayOnMirrorsRelay ==
    [][/\ relayOn = relay
       /\ relayOn' = relay'
       /\ relayOn' # relayOn => cmd' # "none"
       /\ cmd' # "none" => relayOn' = (cmd' = "on")]_vars

\* C8 witness: the relay was switched on and then off by deactivate()
C8_Witness ==
    /\ branch = "deactivate"
    /\ cmd = "off"
    /\ ~relayOn
    /\ ~relay
    /\ onBranch # "none"
    /\ stepCount = 0

\* C9: after a tick that sets timeNext, timeNext is not before the time the
\* tick read; the wait timeStep * (1 - k) of a closing tick is not negative.
C9_TimeNextNotInPast ==
    branch \in Transitions
        => /\ TLe(timeNow, timeNext)
           /\ TLe(timeSched, timeNext)
           /\ wait >= 0
           /\ branch = "close" => wait = timeStep * (Scale - k)

\* C9 witness: a closing tick after an on-phase with k clamped to 1
C9_Witness ==
    /\ branch = "close"
    /\ onBranch = "k_ge_1"
    /\ wait = 0
    /\ timeNext = timeSched

\* C10: a tick whose sensor read raises surfaces the error, changes no field
\* of the controller, commands nothing and appends no record; the same
\* off-phase is still due at the next call.
C10_SensorFailureAtomic ==
    [][(branch' \in UpdateBranches /\ sensorRead' /\ raised')
         => /\ UNCHANGED <<fields, relay, clock>>
            /\ cmd' = "none"
            /\ branch' = "sensor_error"
            /\ controlActive /\ ~relayOn /\ TLe(timeNext, clock)]_vars

\* C10 witness: a failed read after a history that left non-zero PID state
C10_Witness ==
    /\ branch = "sensor_error"
    /\ raised
    /\ sensorRead
    /\ integral # 0
    /\ stepCount > 0

\* C11: while controlActive is false a call of update(), at any time,
\* changes no field of the controller, does not read the sensor, does not
\* command the relay, raises nothing and appends no record.
C11_InactiveTickChangesNothing ==
    [][(~controlActive /\ branch' \in UpdateBranches)
         => /\ UNCHANGED <<fields, relay, clock>>
            /\ branch' = "inactive"
            /\ sensorRead' = FALSE
            /\ cmd' = "none"
            /\ raised' = FALSE]_vars

\* C11 witness: update() called after deactivate(), at a time when a
\* sample would be due
C11_Witness ==
    /\ branch = "inactive"
    /\ ~controlActive
    /\ TLe(timeNext, clock)
    /\ Len(df) > 0
    /\ k > 0

\* C12 (the claim as stated): the gains with which a sampling tick computes
\* k are the default preset when stepCount < 250 and the anti-windup preset
\* when stepCount >= 250.
C12_GainsByStepCount ==
    branch \in Samples
        => Gains = IF stepCount < ANTIWINDUP_STEPS THEN DefaultGains
                   ELSE AntiWindupGains

\* C13: deactivate() sets controlActive to false and commands the relay off,
\* and leaves stepCount, error, integral, derivative, k, the priors, the
\* gains, temperatureLast, timeNext and the records unchanged.
C13_DeactivateKeepsState ==
    [][branch' = "deactivate"
         => /\ ~controlActive'
            /\ cmd' = "off"
            /\ ~relayOn'
            /\ ~relay'
            /\ raised' = FALSE
            /\ sensorRead' = FALSE
            /\ UNCHANGED <<stepCount, error, integral, derivative, k,
                           error_prior, integral_prior, kp, Ti, Td,
                           temperatureLast, timeNext, df, clock>>]_vars

\* C13 witness: deactivate() during a proportioned on-phase, before its end
C13_Witness ==
    /\ branch = "deactivate"
    /\ onBranch = "prop"
    /\ 0 < k /\ k < Scale
    /\ TLt(clock, timeNext)
    /\ wait = timeStep * k
    /\ ~relayOn

ClosingTick == relayOn /\ ~relayOn' /\ branch' \in UpdateBranches
\* the step is a sampling tick that read a temperature >= setPoint
AboveTick == branch' \in Samples /\ temperatureLast' >= setPoint
\* the step is a sampling tick below the set point whose k was <= 0
LowTick == branch' \in Samples /\ temperatureLast' < setPoint /\ k' = 0
PriorsChange == error_prior' # error_prior \/ integral_prior' # integral_prior

\* C15 (the claim as stated): the priors change only in a closing tick and
\* in a sampling tick at or above the set point, where they become the
\* current error and integral; a sampling tick below the set point with
\* k <= 0 leaves the relay off, sets k to 0 and sets timeNext to the time
\* read at line 83 plus timeStep.
C15_PriorCommits_FromTimeNow ==
    [][/\ PriorsChange => (ClosingTick \/ AboveTick)
       /\ (ClosingTick \/ AboveTick)
             => (error_prior' = error' /\ integral_prior' = integral')
       /\ LowTick
             => /\ ~relayOn' /\ ~relay'
                /\ timeNext' = TAdd(timeNow', timeStep * Scale)]_vars

\* C15 (amended): as stated, but in the k <= 0 case timeNext is timeStep
\* after the time update() read when it scheduled (line 120), which is not
\* before the time it read at line 83.
C15_PriorCommits ==
    [][/\ PriorsChange => (ClosingTick \/ AboveTick)
       /\ (ClosingTick \/ AboveTick)
             => (error_prior' = error' /\ integral_prior' = integral')
       /\ LowTick
             => /\ ~relayOn' /\ ~relay'
                /\ cmd' = "none"
                /\ UNCHANGED <<error_prior, integral_prior>>
                /\ timeNext' = TAdd(timeSched', timeStep * Scale)
                /\ TLe(timeNow', timeSched')]_vars

\* C15 witness: a sampling tick below the set point with k <= 0 that left
\* priors differing from the error and integral it computed, during which
\* the clock moved
C15_Witness ==
    /\ branch \in Samples
    /\ temperatureLast < setPoint
    /\ k = 0
    /\ error_prior # error
    /\ integral_prior # integral
    /\ stepCount > 0
    /\ TLt(timeNow, timeSched)

\* C16: in every state 0 <= k <= 1; the k of every record is in [0, 1]; every
\* wait scheduled from k is within [0, timeStep]; after a sampling tick k is
\* 0 at or above the set point.
C16_KClamped ==
    /\ 0 <= k /\ k <= Scale
    /\ \A i \in 1 .. Len(df) : 0 <= df[i].gain /\ df[i].gain <= Scale
    /\ branch \in Transitions => (0 <= wait /\ wait <= timeStep * Scale)
    /\ (branch \in Samples /\ temperatureLast >= setPoint) => k = 0
    /\ branch \in Samples => df[Len(df)].gain = k

\* C16 witness: one tick clamped k to 1 and a later one clamped it to 0
\* below the set point
C16_Witness ==
    /\ Len(df) = 2
    /\ df[1].gain = Scale
    /\ df[2].gain = 0
    /\ branch = "k_le_0"
    /\ derivative < 0
    /\ temperatureLast < setPoint

\* C17: every sampling tick that completes appends exactly one record, made
\* of the time the tick read at line 83 (as time.ctime gives it), the
\* temperature it read and k after clamping; every other step (closing,
\* early, inactive or failed tick, activate(), deactivate(), time passing)
\* leaves the records as they are.
C17_OneRecordPerSample ==
    [][IF branch' \in Samples
       THEN /\ sensorRead' /\ ~raised'
            /\ df' = Append(df, [time |-> ctime(timeNow'),
                                 temperature |-> temperatureLast',
                                 gain |-> k'])
       ELSE df' = df]_vars

\* C17 witness: two samples are on record, the second with a clamped k and
\* a later time than the first, and the on-phase it began has been closed
C17_Witness ==
    /\ Len(df) = 2
    /\ df[1].gain \notin {0, Scale}
    /\ df[2].gain = Scale
    /\ df[2].time > df[1].time
    /\ branch = "close"

\* C18: whenever controlActive is false the relay is off: relayOn is false
\* and the last command to the relay, if any, was off.
C18_OffWhileInactive ==
    ~controlActive => (~relayOn /\ ~relay /\ cmd # "on")

\* C18 witness: control was switched off during an on-phase and update() has
\* been called since, past the end the on-phase would have had
C18_Witness ==
    /\ ~controlActive
    /\ branch = "inactive"
    /\ onBranch # "none"
    /\ stepCount = 0
    /\ TLe(timeNext, clock)
    /\ ~relay

\* C19: whenever the relay is on, 0 < k <= 1 and the last temperature
\* sampled was below the set point.
C19_OnImpliesHeatingNeeded ==
    relayOn => (0 < k /\ k <= Scale /\ temperatureLast < setPoint)

\* C19 witness: the relay is on in a second on-phase, while update() is
\* called before its end
C19_Witness ==
    /\ relayOn
    /\ branch = "early"
    /\ stepCount = 1
    /\ 0 < k /\ k < Scale
    /\ temperatureLast = 29

\* C20: a tick that switches the relay on schedules its end at most timeStep
\* later; and, as long as time passes and update() keeps being called, a
\* relay that is on is switched off again.
C20_BoundedHeating ==
    /\ [](cmd = "on" => /\ relayOn
                         /\ 0 < onWait /\ onWait <= timeStep * Scale
                         /\ timeNext = TAdd(timeSched, onWait))
    /\ (relayOn ~> ~relayOn)

\* C20 witness: a full-period on-phase, begun by a tick that clamped k to 1,
\* was ended by update() once the period was over
C20_Witness ==
    /\ branch = "close"
    /\ onBranch = "k_ge_1"
    /\ onWait = timeStep * Scale
    /\ controlActive
    /\ TLe(TAdd(origin.time, onWait), timeNow)
    /\ stepCount = 1

====
